---- MODULE Spec2Model ----
(***************************************************************************)
(* Model of the retirement calculators of superannuation.py:               *)
(*   project_retirement_income  (year-by-year projection, the core loop)   *)
(*   get_min_drawdown_rate, calculate_tax (its nested helpers)             *)
(*   years_to_reach_target_super, calculate_super_growth                   *)
(*                                                                         *)
(* Numbers.  The code computes in binary floating point.  Here every       *)
(* amount of money is an integer count of mills (1/1000 dollar) and every  *)
(* product or quotient is rounded to the nearest mill, so an arithmetic    *)
(* step rounds its result as a float operation does, on a coarser grid.    *)
(* round(x, 2) of the emitted records is rounding of mills to whole cents  *)
(* (ties to even), which is not the identity.  A rate is an integer        *)
(* numerator over a fixed denominator.                                     *)
(***************************************************************************)
EXTENDS Integers, Sequences, FiniteSets, TLC

\* ------------------------------------------------------------------ bounds
\* Longest age range of a projection: end_age - start_age <= MaxSpan.
MaxSpan == 3

\* ------------------------------------------------------------- arithmetic
Mill == 1000
Dollars(d) == d * Mill

Max(a, b) == IF a >= b THEN a ELSE b
Min(a, b) == IF a <= b THEN a ELSE b
Abs(a) == IF a >= 0 THEN a ELSE -a

\* a / d rounded to the nearest integer (ties upward), d > 0, any sign of a.
RoundDiv(a, d) == (2 * a + d) \div (2 * d)

\* x * n / d rounded to the nearest mill, computed without leaving the
\* integer range: x = q*d + rem, so x*n/d = q*n + rem*n/d.
MulDiv(x, n, d) == (x \div d) * n + RoundDiv((x % d) * n, d)

\* x * rate for a rate given in percent (super_return_rate, drawdown rates).
MulPct(x, pct) == MulDiv(x, pct, 100)

\* round(x, 2): mills to the nearest whole cent, ties to the even cent.
Round2(x) ==
    LET q == x \div 10
        rem == x % 10
    IN  IF rem < 5 THEN q * 10
        ELSE IF rem > 5 THEN (q + 1) * 10
        ELSE IF q % 2 = 0 THEN q * 10 ELSE (q + 1) * 10

\* ------------------------------------------------------ program constants
Statuses == {"single", "couple"}

\* CONSTANTS[relationship_status], money in mills, rates as numerators.
SelectedConstants(relationship_status) ==
    IF relationship_status = "single"
    THEN [ MAX_ANNUAL_AGE_PENSION |-> 29874000,
           DEEM_THRESH1 |-> 64200000,
           DEEM_RATE1 |-> 25,                     \* / 10000
           DEEM_RATE2 |-> 225,                    \* / 10000
           ASSET_FULL_PENSION |-> 321500000,
           ASSET_PART_PENSION_CUTOFF |-> 704500000,
           INCOME_FULL_PENSION |-> 5668000,
           INCOME_PART_PENSION_CUTOFF |-> 65416000,
           AP_INCOME_REDUCTION_RATE |-> 5,        \* / 10
           SAPTO_MAX |-> 2230000,
           SAPTO_EFFECTIVE_TAX_FREE_THRESHOLD |-> 32279000,
           SAPTO_PHASE_OUT_RATE |-> 125,          \* / 1000
           MEDICARE_LEVY_THRESHOLD_SENIOR |-> 43020000,
           MEDICARE_LEVY_RATE |-> 2 ]             \* / 100
    ELSE [ MAX_ANNUAL_AGE_PENSION |-> 45037200,
           DEEM_THRESH1 |-> 106200000,
           DEEM_RATE1 |-> 25,
           DEEM_RATE2 |-> 225,
           ASSET_FULL_PENSION |-> 481500000,
           ASSET_PART_PENSION_CUTOFF |-> 1059000000,
           INCOME_FULL_PENSION |-> 9880000,
           INCOME_PART_PENSION_CUTOFF |-> 99954400,
           AP_INCOME_REDUCTION_RATE |-> 5,
           SAPTO_MAX |-> 1602000,
           SAPTO_EFFECTIVE_TAX_FREE_THRESHOLD |-> 30994000,
           SAPTO_PHASE_OUT_RATE |-> 125,
           MEDICARE_LEVY_THRESHOLD_SENIOR |-> 59886000,
           MEDICARE_LEVY_RATE |-> 2 ]

AGE_PENSION_ELIGIBILITY_AGE == 67

\* The assets-test taper 0.0078, as a numerator over 10000.
ASSET_TAPER == 78

\* MIN_DRAWDOWN_RATES in dictionary order: <<min age, max age, rate in %>>.
MIN_DRAWDOWN_RATES ==
    << <<0, 64, 4>>, <<65, 74, 5>>, <<75, 79, 6>>, <<80, 84, 7>>,
       <<85, 89, 9>>, <<90, 94, 11>>, <<95, 200, 14>> >>

\* ---------------------------------------------------- get_min_drawdown_rate
\* The bands scanned in order from band i; 0 when none contains the age.
RECURSIVE ScanBands(_, _)
ScanBands(age, i) ==
    IF i > Len(MIN_DRAWDOWN_RATES) THEN 0
    ELSE IF MIN_DRAWDOWN_RATES[i][1] <= age /\ age <= MIN_DRAWDOWN_RATES[i][2]
         THEN MIN_DRAWDOWN_RATES[i][3]
         ELSE ScanBands(age, i + 1)

get_min_drawdown_rate(age) == ScanBands(age, 1)

\* ------------------------------------------------------------ calculate_tax
gross_tax(taxable_income) ==
    IF taxable_income <= Dollars(18200) THEN 0
    ELSE IF taxable_income <= Dollars(45000)
         THEN MulDiv(taxable_income - Dollars(18200), 16, 100)
    ELSE IF taxable_income <= Dollars(135000)
         THEN Dollars(4288) + MulDiv(taxable_income - Dollars(45000), 30, 100)
    ELSE IF taxable_income <= Dollars(190000)
         THEN Dollars(31288) + MulDiv(taxable_income - Dollars(135000), 37, 100)
    ELSE Dollars(51638) + MulDiv(taxable_income - Dollars(190000), 45, 100)

\* Mutation of sapto_offset: the offset starts after the eligibility age.
sapto_offset_StrictAge(taxable_income, age, relationship_status) ==
    LET k == SelectedConstants(relationship_status)
        gross == gross_tax(taxable_income)
    IN  IF age > AGE_PENSION_ELIGIBILITY_AGE
        THEN IF taxable_income <= k.SAPTO_EFFECTIVE_TAX_FREE_THRESHOLD
             THEN gross
             ELSE Min(Max(0, k.SAPTO_MAX
                             - MulDiv(taxable_income
                                        - k.SAPTO_EFFECTIVE_TAX_FREE_THRESHOLD,
                                      k.SAPTO_PHASE_OUT_RATE, 1000)),
                      gross)
        ELSE 0

sapto_offset(taxable_income, age, relationship_status) ==
    LET k == SelectedConstants(relationship_status)
        gross == gross_tax(taxable_income)
    IN  IF age >= AGE_PENSION_ELIGIBILITY_AGE
        THEN IF taxable_income <= k.SAPTO_EFFECTIVE_TAX_FREE_THRESHOLD
             THEN gross
             ELSE Min(Max(0, k.SAPTO_MAX
                             - MulDiv(taxable_income
                                        - k.SAPTO_EFFECTIVE_TAX_FREE_THRESHOLD,
                                      k.SAPTO_PHASE_OUT_RATE, 1000)),
                      gross)
        ELSE 0

tax_after_sapto(taxable_income, age, relationship_status) ==
    Max(0, gross_tax(taxable_income)
           - sapto_offset(taxable_income, age, relationship_status))

\* The threshold the levy test uses: the status's threshold for a single
\* person's calculation, the status's threshold halved for a couple's one
\* unless the status is single.
medicare_threshold(relationship_status, is_couple_tax) ==
    LET k == SelectedConstants(relationship_status)
    IN  IF ~is_couple_tax THEN k.MEDICARE_LEVY_THRESHOLD_SENIOR
        ELSE RoundDiv(k.MEDICARE_LEVY_THRESHOLD_SENIOR,
                      IF relationship_status = "single" THEN 1 ELSE 2)

medicare_levy(taxable_income, relationship_status, is_couple_tax) ==
    IF taxable_income > medicare_threshold(relationship_status, is_couple_tax)
    THEN MulDiv(taxable_income,
                SelectedConstants(relationship_status).MEDICARE_LEVY_RATE, 100)
    ELSE 0

calculate_tax(taxable_income, age, relationship_status, is_couple_tax) ==
    tax_after_sapto(taxable_income, age, relationship_status)
    + medicare_levy(taxable_income, relationship_status, is_couple_tax)

\* --------------------------------------------------- calculate_super_growth
\* Mutation of calculate_super_growth: the return is applied before the
\* year's contribution is added.
RECURSIVE calculate_super_growth_ReturnFirst(_, _, _, _)
calculate_super_growth_ReturnFirst(bal, contribution, rate, n) ==
    IF n <= 0 THEN bal
    ELSE IF n = 1 THEN bal + MulPct(bal, rate) + contribution
    ELSE CHOOSE v \in
             { calculate_super_growth_ReturnFirst(p, contribution, rate,
                                                  n - n \div 2) :
                 p \in {calculate_super_growth_ReturnFirst(bal, contribution,
                                                           rate, n \div 2)} } :
             TRUE

\* The balance after n iterations of the loop.  One iteration adds the
\* contribution and multiplies by 1 + rate (rate in percent); n iterations
\* are the first n \div 2 of them, giving the balance p, followed by the
\* remaining ones from p (this keeps the evaluation shallow).
RECURSIVE calculate_super_growth(_, _, _, _)
calculate_super_growth(bal, contribution, rate, n) ==
    IF n <= 0 THEN bal
    ELSE IF n = 1 THEN MulDiv(bal + contribution, 100 + rate, 100)
    ELSE CHOOSE v \in
             { calculate_super_growth(p, contribution, rate, n - n \div 2) :
                 p \in {calculate_super_growth(bal, contribution, rate,
                                               n \div 2)} } :
             TRUE

\* ------------------------------------------------------- Age Pension tests
deemed_income(current_super, relationship_status) ==
    LET k == SelectedConstants(relationship_status)
    IN  IF current_super > 0
        THEN MulDiv(Min(current_super, k.DEEM_THRESH1), k.DEEM_RATE1, 10000)
             + MulDiv(Max(0, current_super - k.DEEM_THRESH1), k.DEEM_RATE2, 10000)
        ELSE 0

ap_by_income(current_super, relationship_status) ==
    LET k == SelectedConstants(relationship_status)
        deemed == deemed_income(current_super, relationship_status)
    IN  IF deemed <= k.INCOME_FULL_PENSION THEN k.MAX_ANNUAL_AGE_PENSION
        ELSE IF deemed < k.INCOME_PART_PENSION_CUTOFF
             THEN Max(0, k.MAX_ANNUAL_AGE_PENSION
                         - MulDiv(deemed - k.INCOME_FULL_PENSION,
                                  k.AP_INCOME_REDUCTION_RATE, 10))
             ELSE 0

\* Mutation of ap_by_asset: the taper applied to the balance, not to the
\* excess over the full-pension limit.
ap_by_asset_TaperOnBalance(current_super, relationship_status) ==
    LET k == SelectedConstants(relationship_status)
    IN  IF current_super <= k.ASSET_FULL_PENSION THEN k.MAX_ANNUAL_AGE_PENSION
        ELSE IF current_super < k.ASSET_PART_PENSION_CUTOFF
             THEN Max(0, k.MAX_ANNUAL_AGE_PENSION
                         - MulDiv(current_super, ASSET_TAPER, 10000))
             ELSE 0

ap_by_asset(current_super, relationship_status) ==
    LET k == SelectedConstants(relationship_status)
    IN  IF current_super <= k.ASSET_FULL_PENSION THEN k.MAX_ANNUAL_AGE_PENSION
        ELSE IF current_super < k.ASSET_PART_PENSION_CUTOFF
             THEN Max(0, k.MAX_ANNUAL_AGE_PENSION
                         - MulDiv(current_super - k.ASSET_FULL_PENSION,
                                  ASSET_TAPER, 10000))
             ELSE 0

\* Mutation of annual_age_pension: the more generous test binds.
annual_age_pension_MaxOfTests(current_super, age, relationship_status) ==
    IF age >= AGE_PENSION_ELIGIBILITY_AGE
    THEN Max(0, Max(ap_by_income(current_super, relationship_status),
                    ap_by_asset(current_super, relationship_status)))
    ELSE 0

annual_age_pension(current_super, age, relationship_status) ==
    IF age >= AGE_PENSION_ELIGIBILITY_AGE
    THEN Max(0, Min(ap_by_income(current_super, relationship_status),
                    ap_by_asset(current_super, relationship_status)))
    ELSE 0

\* ------------------------------------------------------------------ state
VARIABLES
    fn,             \* the function this behaviour runs
    pc,             \* position in it
    args,           \* its arguments
    age,            \* loop variable `age` (both loops have one)
    current_super,  \* project_retirement_income: running balance
    results,        \* project_retirement_income: the list returned
    locals,         \* history: the unrounded locals of each emitted year
    years,          \* years_to_reach_target_super: loop counter
    balance,        \* years_to_reach_target_super: running balance
    ret             \* value returned by the other functions

vars == <<fn, pc, args, age, current_super, results, locals, years, balance, ret>>

\* ----------------------------------------------------------------- inputs
StartSupers ==
    { Dollars(d) : d \in {0, 1000, 50000, 321500, 331500, 500000,
                          704500, 1100000} }
StartAges == {65, 66, 67, 94, 199}
Spans == -1 .. MaxSpan
ReturnRates == {-150, -100, -50, 0, 5}          \* super_return_rate in %
Targets == { Dollars(d) : d \in {0, 20000, 60000} }

YtBalances == { Dollars(d) : d \in {0, 100} }
YtTargets == { Dollars(d) : d \in {0, 100, 150, 1000} }
YtContributions == { Dollars(d) : d \in {-1, 0, 1, 10} }
YtRates == {-50, 0, 5}                          \* annual_return_rate in %
YtStartAges == {30}

TaxIncomes ==
    { Dollars(d) : d \in {0, 18000, 18200, 20000, 29943, 29944, 30000, 30994,
                          30995, 32279, 32280, 40000, 43020, 43021, 50000,
                          140000, 200000} }
TaxAges == {30, 66, 67, 70}
DrawdownAges ==
    {-1, 0, 64, 65, 74, 75, 79, 80, 84, 85, 89, 90, 94, 95, 150, 200, 201, 250}

\* float('inf') of the unreachable result: above every finite year or age.
Inf == 999999999
max_years_projection == 100

\* ------------------------------------------- project_retirement_income body
\* Mutation of Divisor: a couple's pension taxed as one person's income.
Divisor_NoSplit(relationship_status) == 1

Divisor(relationship_status) == IF relationship_status = "couple" THEN 2 ELSE 1

\* Mutation of annual_super_withdrawal: the cap at the balance left out.
annual_super_withdrawal_NoCap(cs, min_drawdown_amt, after_tax_age_pension, target) ==
    Max(0, Max(min_drawdown_amt, target - after_tax_age_pension))

\* Mutation of annual_super_withdrawal: only the minimum drawdown is taken.
annual_super_withdrawal_MinimumOnly(cs, min_drawdown_amt, after_tax_age_pension, target) ==
    Max(0, Min(min_drawdown_amt, cs))

\* The withdrawal of one year from the balance, the minimum drawdown and
\* the after-tax pension (the four assignments of the loop body).
annual_super_withdrawal(cs, min_drawdown_amt, after_tax_age_pension, target) ==
    LET required_super_withdrawal == target - after_tax_age_pension
        w1 == Max(min_drawdown_amt, required_super_withdrawal)
        w2 == Min(w1, cs)
        w3 == IF target <= after_tax_age_pension
              THEN Min(min_drawdown_amt, cs)
              ELSE w2
    IN  Max(0, w3)

\* The locals of one iteration of the loop, unrounded, given the balance and
\* age it starts from and the values the body has computed.
YearLocals(cs, a, in, pension, taxable, total_tax, mda, w, inv_return) ==
    [ age |-> a,
      current_super |-> cs,
      \* the two tests are computed only from the eligibility age on
      ap_by_income |-> IF a >= AGE_PENSION_ELIGIBILITY_AGE
                       THEN ap_by_income(cs, in.relationship_status)
                       ELSE 0,
      ap_by_asset |-> IF a >= AGE_PENSION_ELIGIBILITY_AGE
                      THEN ap_by_asset(cs, in.relationship_status)
                      ELSE 0,
      annual_age_pension |-> pension,
      taxable_age_pension_for_tax_calc |-> taxable,
      total_tax_payment |-> total_tax,
      after_tax_age_pension |-> pension - total_tax,
      min_drawdown_rate |-> get_min_drawdown_rate(a),
      min_drawdown_amt |-> mda,
      annual_super_withdrawal |-> w,
      total_annual_income_before_tax |-> w + pension,
      total_income_after_tax |-> (w + pension) - total_tax,
      investment_return |-> inv_return,
      end_super |-> (cs - w) + inv_return ]

\* The dictionary appended to results: the locals rounded to cents.
YearResult(l) ==
    [ Age |-> l.age,
      StartSuper |-> Round2(l.current_super),
      MinDrawdownPct |-> l.min_drawdown_rate,
      MinDrawdown |-> Round2(l.min_drawdown_amt),
      AnnualSuperWithdrawal |-> Round2(l.annual_super_withdrawal),
      AnnualAgePension |-> Round2(l.annual_age_pension),
      TotalAnnualIncomePreTax |-> Round2(l.total_annual_income_before_tax),
      TaxableIncome |-> Round2(l.taxable_age_pension_for_tax_calc),
      TaxPayment |-> Round2(l.total_tax_payment),
      TotalIncomeAfterTax |-> Round2(l.total_income_after_tax),
      InvestmentReturn |-> Round2(l.investment_return),
      EndSuper |-> Round2(l.end_super) ]

\* Mutation of StopsEarly: the test for an absent pension left out.
StopsEarly_NoPensionTest(l, in) ==
    /\ l.end_super <= 0
    /\ l.age < in.end_age
    /\ l.total_income_after_tax < in.target_after_tax_income

\* The test that ends the loop early, on the locals of the year just emitted.
StopsEarly(l, in) ==
    /\ l.end_super <= 0
    /\ l.age < in.end_age
    /\ l.annual_age_pension = 0
    /\ l.total_income_after_tax < in.target_after_tax_income

\* Mutation of NextSuper: the balance after the withdrawal carried forward,
\* without the year's investment return.
NextSuper_NoReturn(l, in) ==
    IF l.end_super <= 0 /\ l.age < in.end_age THEN 0
    ELSE l.current_super - l.annual_super_withdrawal

\* current_super after the year: end_super, capped at zero before end_age.
NextSuper(l, in) ==
    IF l.end_super <= 0 /\ l.age < in.end_age THEN 0 ELSE l.end_super

\* ------------------------------------------------------------------- Init
ProjectArgs ==
    { [ start_super |-> b, start_age |-> a, end_age |-> a + n,
        super_return_rate |-> r, target_after_tax_income |-> t,
        relationship_status |-> st ] :
      b \in StartSupers, a \in StartAges, n \in Spans, r \in ReturnRates,
      t \in Targets, st \in Statuses }

YearsArgs ==
    { [ start_age |-> a, current_balance |-> b, target_balance |-> t,
        annual_contribution |-> c, annual_return_rate |-> r ] :
      a \in YtStartAges, b \in YtBalances, t \in YtTargets,
      c \in YtContributions, r \in YtRates }

TaxArgs ==
    { [ taxable_income |-> i, age |-> a, relationship_status |-> st,
        is_couple_tax |-> f ] :
      i \in TaxIncomes, a \in TaxAges, st \in Statuses, f \in BOOLEAN }

DrawdownArgs == { [ age |-> a ] : a \in DrawdownAges }

NoValue == << >>

\* No function has been called yet.
Init ==
    /\ fn = "none"
    /\ pc = "idle"
    /\ args = NoValue
    /\ age = 0
    /\ current_super = 0
    /\ results = << >>
    /\ locals = << >>
    /\ years = 0
    /\ balance = 0
    /\ ret = NoValue

\* ---------------------------------------------------------------- actions
\* A call of project_retirement_income: results = [], current_super =
\* start_super, the loop variable at the first age of the range.
CallProject ==
    /\ pc = "idle"
    /\ \E a \in ProjectArgs :
          /\ args' = a
          /\ age' = a.start_age
          /\ current_super' = a.start_super
    /\ fn' = "project_retirement_income"
    /\ pc' = "loop"
    /\ UNCHANGED <<results, locals, years, balance, ret>>

\* A call of years_to_reach_target_super: years = 0, age = start_age,
\* balance = current_balance.
CallYears ==
    /\ pc = "idle"
    /\ \E a \in YearsArgs :
          /\ args' = a
          /\ age' = a.start_age
          /\ balance' = a.current_balance
    /\ years' = 0
    /\ fn' = "years_to_reach_target_super"
    /\ pc' = "entry"
    /\ UNCHANGED <<current_super, results, locals, ret>>

CallTax ==
    /\ pc = "idle"
    /\ \E a \in TaxArgs : args' = a /\ age' = a.age
    /\ fn' = "calculate_tax"
    /\ pc' = "call"
    /\ UNCHANGED <<current_super, results, locals, years, balance, ret>>

CallDrawdown ==
    /\ pc = "idle"
    /\ \E a \in DrawdownArgs : args' = a /\ age' = a.age
    /\ fn' = "get_min_drawdown_rate"
    /\ pc' = "call"
    /\ UNCHANGED <<current_super, results, locals, years, balance, ret>>

\* Mutation of InRange: range(start_age, end_age), the last age left out.
InRange_Exclusive(a, in) == a < in.end_age

\* a is in range(start_age, end_age + 1), for a loop variable counted up
\* from start_age.
InRange(a, in) == a <= in.end_age

\* One iteration of `for age in range(start_age, end_age + 1)`: the body
\* (each local bound to its value in the order the body assigns it), the
\* append, the roll-forward of current_super and the early break.
ProjectYear ==
    /\ fn = "project_retirement_income" /\ pc = "loop"
    /\ InRange(age, args)
    /\ \E pension \in
            {annual_age_pension(current_super, age, args.relationship_status)} :
       \E taxable \in {RoundDiv(pension, Divisor(args.relationship_status))} :
       \E total_tax \in
            {calculate_tax(taxable, age, args.relationship_status,
                           args.relationship_status = "couple")
               * Divisor(args.relationship_status)} :
       \E mda \in {MulPct(current_super, get_min_drawdown_rate(age))} :
       \E w \in {annual_super_withdrawal(current_super, mda, pension - total_tax,
                                         args.target_after_tax_income)} :
       \E inv_return \in {MulPct(current_super - w, args.super_return_rate)} :
       \E l \in {YearLocals(current_super, age, args, pension, taxable,
                            total_tax, mda, w, inv_return)} :
           /\ results' = Append(results, YearResult(l))
           /\ locals' = Append(locals, l)
           /\ current_super' = NextSuper(l, args)
           /\ IF StopsEarly(l, args)
              THEN pc' = "done" /\ age' = age
              ELSE pc' = "loop" /\ age' = age + 1
    /\ UNCHANGED <<fn, args, years, balance, ret>>

\* The range is exhausted: return results.
ProjectReturn ==
    /\ fn = "project_retirement_income" /\ pc = "loop"
    /\ ~InRange(age, args)
    /\ pc' = "done"
    /\ UNCHANGED <<fn, args, age, current_super, results, locals, years,
                   balance, ret>>

\* The two defensive returns before the loop.
YearsEntry ==
    /\ fn = "years_to_reach_target_super" /\ pc = "entry"
    /\ IF args.target_balance <= args.current_balance
       THEN /\ ret' = [ years |-> 0, age |-> args.start_age,
                        balance |-> args.current_balance ]
            /\ pc' = "done"
       ELSE IF args.annual_contribution <= 0 /\ args.annual_return_rate <= 0
       THEN /\ ret' = [ years |-> Inf, age |-> Inf,
                        balance |-> args.current_balance ]
            /\ pc' = "done"
       ELSE /\ ret' = ret
            /\ pc' = "loop"
    /\ UNCHANGED <<fn, args, age, current_super, results, locals, years,
                   balance>>

\* Mutation of YearsContinue: the cap tested with <=.
YearsContinue_Inclusive ==
    balance < args.target_balance /\ years <= max_years_projection

\* The loop condition of years_to_reach_target_super.
YearsContinue ==
    balance < args.target_balance /\ years < max_years_projection

\* One iteration of the while loop.
YearsLoop ==
    /\ fn = "years_to_reach_target_super" /\ pc = "loop"
    /\ YearsContinue
    /\ balance' = balance + args.annual_contribution
                  + MulPct(balance + args.annual_contribution,
                           args.annual_return_rate)
    /\ years' = years + 1
    /\ age' = age + 1
    /\ UNCHANGED <<fn, pc, args, current_super, results, locals, ret>>

\* The loop has ended: the unreachable result or the years found.
YearsReturn ==
    /\ fn = "years_to_reach_target_super" /\ pc = "loop"
    /\ ~YearsContinue
    /\ ret' = IF years = max_years_projection /\ balance < args.target_balance
              THEN [ years |-> Inf, age |-> Inf, balance |-> balance ]
              ELSE [ years |-> years, age |-> age, balance |-> balance ]
    /\ pc' = "done"
    /\ UNCHANGED <<fn, args, age, current_super, results, locals, years,
                   balance>>

CalculateTax ==
    /\ fn = "calculate_tax" /\ pc = "call"
    /\ ret' = calculate_tax(args.taxable_income, args.age,
                            args.relationship_status, args.is_couple_tax)
    /\ pc' = "done"
    /\ UNCHANGED <<fn, args, age, current_super, results, locals, years,
                   balance>>

GetMinDrawdownRate ==
    /\ fn = "get_min_drawdown_rate" /\ pc = "call"
    /\ ret' = get_min_drawdown_rate(args.age)
    /\ pc' = "done"
    /\ UNCHANGED <<fn, args, age, current_super, results, locals, years,
                   balance>>

Next ==
    \/ CallProject
    \/ CallYears
    \/ CallTax
    \/ CallDrawdown
    \/ ProjectYear
    \/ ProjectReturn
    \/ YearsEntry
    \/ YearsLoop
    \/ YearsReturn
    \/ CalculateTax
    \/ GetMinDrawdownRate

Spec == Init /\ [][Next]_vars

\* Every call runs to its return: no step of a function is postponed for ever.
FairSpec == Spec /\ WF_vars(Next)

Done == pc = "done"

\* ============================================================ properties
IsProject == fn = "project_retirement_income"
IsYears == fn = "years_to_reach_target_super"
IsTax == fn = "calculate_tax"
IsDrawdown == fn = "get_min_drawdown_rate"

Emitted == 1 .. Len(results)

\* Number of ages in range(start_age, end_age + 1).
RangeLen == Max(0, args.end_age - args.start_age + 1)

\* ---------------------------------------------------------------------- C1
\* (startSuper - withdrawal) * (1 + superReturnRate), rate in percent.
GrownBy(x, pct) == MulDiv(x, 100 + pct, 100)

\* Rounding tolerance of the relation on the emitted (cent-rounded) fields:
\* half a cent on endSuper, half a cent on each of startSuper and withdrawal
\* scaled by |1 + rate|, and one mill of the product's own rounding.
RoundingTolerance(pct) == 6 + (10 * Abs(100 + pct) + 99) \div 100

RoundTripYear(i) ==
    Abs(results[i].EndSuper
        - GrownBy(results[i].StartSuper - results[i].AnnualSuperWithdrawal,
                  args.super_return_rate))
      <= RoundingTolerance(args.super_return_rate)

CarriedForward(i) ==
    /\ locals[i + 1].current_super = locals[i].end_super
    /\ results[i + 1].StartSuper = results[i].EndSuper

\* C1 as stated: every emitted year satisfies endSuper == (startSuper -
\* withdrawal) * (1 + superReturnRate), and startSuper of year i+1 equals
\* endSuper of year i, for any superReturnRate.
C1_RoundTripAnyRate ==
    IsProject =>
        \A i \in Emitted :
            /\ RoundTripYear(i)
            /\ (i < Len(results) => CarriedForward(i))

\* C1 amended: every emitted year satisfies endSuper == (startSuper -
\* withdrawal) * (1 + superReturnRate) for any rate; startSuper of year i+1
\* equals endSuper of year i whenever superReturnRate >= -1 (endSuper of year
\* i is not negative), and is 0 when endSuper of year i is negative.
C1_RoundTrip ==
    IsProject =>
        \A i \in Emitted :
            /\ RoundTripYear(i)
            /\ (i < Len(results) =>
                  /\ (args.super_return_rate >= -100 => locals[i].end_super >= 0)
                  /\ (locals[i].end_super >= 0 => CarriedForward(i))
                  /\ (locals[i].end_super < 0 =>
                        /\ locals[i + 1].current_super = 0
                        /\ results[i + 1].StartSuper = 0))

\* Three years emitted at a positive return, each with a withdrawal and a
\* balance left that is not a whole number of cents.
C1_Witness ==
    /\ IsProject /\ Done
    /\ Len(results) >= 3
    /\ args.super_return_rate > 0
    /\ \A i \in Emitted : /\ locals[i].annual_super_withdrawal > 0
                          /\ locals[i].end_super > 0
    /\ \E i \in Emitted : locals[i].end_super # results[i].EndSuper

\* ---------------------------------------------------------------------- C2
\* The stopping condition in the claim's words, on the values of year i.
DepletedUnfunded(i) ==
    /\ locals[i].age < args.end_age
    /\ locals[i].end_super <= 0
    /\ locals[i].annual_age_pension = 0
    /\ locals[i].total_income_after_tax < args.target_after_tax_income

\* C2: the projection stops right after the first year before endAge whose
\* end balance is <= 0 with agePension == 0 and totalAfterTax < target, and
\* stops before endAge in no other case; with startSuper = 0, target > 0 and
\* startAge < 67 (startAge <= endAge) the result is the one record of startAge.
C2_EarlyTermination ==
    IsProject =>
        /\ \A i \in Emitted : DepletedUnfunded(i) => (i = Len(results) /\ Done)
        /\ (Done /\ Len(results) < RangeLen) =>
              (Len(results) >= 1 /\ DepletedUnfunded(Len(results)))
        /\ ( /\ Done
             /\ args.start_super = 0
             /\ args.target_after_tax_income > 0
             /\ args.start_age < AGE_PENSION_ELIGIBILITY_AGE
             /\ args.start_age <= args.end_age )
           => (Len(results) = 1 /\ results[1].Age = args.start_age)

\* A projection that stopped early after its second year.
C2_Witness ==
    /\ IsProject /\ Done
    /\ Len(results) = 2
    /\ RangeLen > 2
    /\ DepletedUnfunded(2)

\* ---------------------------------------------------------------------- C3
ShapeOfResults ==
    IsProject =>
        /\ \A k \in Emitted : results[k].Age = args.start_age + (k - 1)
        /\ Len(results) <= RangeLen
        /\ ( /\ Done
             /\ \A i \in Emitted :
                   results[i].Age < args.end_age => results[i].EndSuper > 0 )
           => Len(results) = RangeLen
        /\ (Done /\ Len(results) = 0) => args.start_age > args.end_age

\* C3: the projection always terminates; the k-th record (from 0) has
\* Age == startAge + k; there are at most endAge - startAge + 1 records,
\* exactly that many when no year before endAge ends with endSuper <= 0, and
\* none only if startAge > endAge.
C3_Shape == [](ShapeOfResults) /\ (IsProject ~> Done)

\* A full-length projection of a well-funded input.
C3_Witness ==
    /\ IsProject /\ Done
    /\ Len(results) = RangeLen
    /\ RangeLen >= 3
    /\ \A i \in Emitted : results[i].EndSuper > 0

\* ---------------------------------------------------------------------- C4
Clamp(x, lo, hi) == Max(lo, Min(x, hi))

\* C4: each year's withdrawal is minDrawdownAmt clamped to [0, currentSuper]
\* when afterTaxPension >= target, and max(minDrawdownAmt, target -
\* afterTaxPension) clamped to [0, currentSuper] otherwise, with
\* minDrawdownAmt = currentSuper * minDrawdownRate(age) and
\* afterTaxPension = agePension - totalTax.
C4_WithdrawalRule ==
    IsProject =>
        \A i \in Emitted :
            LET l == locals[i]
                t == args.target_after_tax_income
            IN  /\ l.min_drawdown_amt = MulPct(l.current_super, l.min_drawdown_rate)
                /\ l.after_tax_age_pension
                     = l.annual_age_pension - l.total_tax_payment
                /\ l.annual_super_withdrawal
                     = IF l.after_tax_age_pension >= t
                       THEN Clamp(l.min_drawdown_amt, 0, l.current_super)
                       ELSE Clamp(Max(l.min_drawdown_amt,
                                      t - l.after_tax_age_pension),
                                  0, l.current_super)

\* Both branches taken in one projection, and a year where the balance caps
\* the withdrawal.
C4_Witness ==
    /\ IsProject
    /\ \E i, j \in Emitted :
          /\ locals[i].after_tax_age_pension >= args.target_after_tax_income
          /\ locals[i].annual_super_withdrawal > 0
          /\ locals[j].after_tax_age_pension < args.target_after_tax_income
          /\ locals[j].annual_super_withdrawal > locals[j].min_drawdown_amt
          /\ args.target_after_tax_income > 0

\* ---------------------------------------------------------------------- C5
MaxAnnualPension(status) == SelectedConstants(status).MAX_ANNUAL_AGE_PENSION

\* C5: the Age Pension is 0 below age 67; from 67 it is min(income-test
\* entitlement, assets-test entitlement) floored at 0, so it lies in
\* 0 .. maxAnnualPension, and equals maxAnnualPension (29874 for a single)
\* when the balance is 0.
C5_PensionEntitlement ==
    IsProject =>
        \A i \in Emitted :
            LET l == locals[i]
                top == MaxAnnualPension(args.relationship_status)
            IN  /\ l.age < 67 => l.annual_age_pension = 0
                /\ l.age >= 67 =>
                      /\ l.annual_age_pension
                           = Max(0, Min(l.ap_by_income, l.ap_by_asset))
                      /\ (l.current_super = 0 => l.annual_age_pension = top)
                      /\ ( /\ l.current_super = 0
                           /\ args.relationship_status = "single" )
                         => l.annual_age_pension = Dollars(29874)
                /\ 0 <= l.annual_age_pension
                /\ l.annual_age_pension <= top

\* A year below 67 without pension, then a year from 67 on an empty balance
\* with the full pension; elsewhere a year where each test binds.
C5_Witness ==
    /\ IsProject
    /\ Len(locals) >= 2
    /\ locals[1].age < 67 /\ locals[1].annual_age_pension = 0
    /\ locals[2].age >= 67 /\ locals[2].current_super = 0
    /\ locals[2].annual_age_pension
         = MaxAnnualPension(args.relationship_status)

\* ---------------------------------------------------------------------- C6
AssetLimit(status) == SelectedConstants(status).ASSET_FULL_PENSION
AssetCutoff(status) == SelectedConstants(status).ASSET_PART_PENSION_CUTOFF

\* maxAnnualPension - 0.0078 * (balance - assetFullPensionLimit), floored.
Tapered(bal, status) ==
    Max(0, MaxAnnualPension(status)
           - MulDiv(bal - AssetLimit(status), 78, 10000))

\* C6 as stated: from age 67 the assets-test entitlement is maxAnnualPension
\* up to assetFullPensionLimit and max(0, maxAnnualPension - 0.0078 *
\* (balance - limit)) for every balance above it.
C6_AssetsTestEveryBalance ==
    IsProject =>
        \A i \in Emitted :
            LET l == locals[i]
                st == args.relationship_status
            IN  l.age >= 67 =>
                    l.ap_by_asset
                      = IF l.current_super <= AssetLimit(st)
                        THEN MaxAnnualPension(st)
                        ELSE Tapered(l.current_super, st)

\* C6 amended: from age 67 the assets-test entitlement is maxAnnualPension
\* up to assetFullPensionLimit, max(0, maxAnnualPension - 0.0078 * (balance
\* - limit)) for a balance above the limit and below assetPartPensionCutoff,
\* and 0 from assetPartPensionCutoff on; for a single with 331500 it is 29796.
C6_AssetsTest ==
    IsProject =>
        \A i \in Emitted :
            LET l == locals[i]
                st == args.relationship_status
            IN  l.age >= 67 =>
                    /\ l.ap_by_asset
                         = IF l.current_super <= AssetLimit(st)
                           THEN MaxAnnualPension(st)
                           ELSE IF l.current_super < AssetCutoff(st)
                           THEN Tapered(l.current_super, st)
                           ELSE 0
                    /\ (st = "single" /\ l.current_super = Dollars(321500 + 10000))
                       => l.ap_by_asset = Dollars(29796)

\* The worked example: a single, 67 or older, 10000 above the limit.
C6_Witness ==
    /\ IsProject
    /\ args.relationship_status = "single"
    /\ \E i \in Emitted :
          /\ locals[i].age >= 67
          /\ locals[i].current_super = Dollars(331500)
          /\ locals[i].ap_by_asset = Dollars(29796)

\* ---------------------------------------------------------------------- C7
SaptoThreshold(status) ==
    IF status = "single" THEN Dollars(32279) ELSE Dollars(30994)

\* A call of calculate_tax at 67 or older, the split flag matching the
\* status, with a taxable income up to the status's SAPTO threshold.
FullOffsetCall ==
    /\ IsTax /\ Done
    /\ args.age >= 67
    /\ args.is_couple_tax = (args.relationship_status = "couple")
    /\ args.taxable_income <= SaptoThreshold(args.relationship_status)

ListedRate(a) ==
    IF a <= 64 THEN 4
    ELSE IF a <= 74 THEN 5
    ELSE IF a <= 79 THEN 6
    ELSE IF a <= 84 THEN 7
    ELSE IF a <= 89 THEN 9
    ELSE IF a <= 94 THEN 11
    ELSE 14

BandsContaining(a) ==
    { i \in 1 .. Len(MIN_DRAWDOWN_RATES) :
        MIN_DRAWDOWN_RATES[i][1] <= a /\ a <= MIN_DRAWDOWN_RATES[i][2] }

\* C8: for every integer age >= 0 exactly one band contains the age and
\* minDrawdownRate(age) returns its rate (0.14 for every age >= 95); the
\* fallback 0.0 is never returned.
C8_BandsPartition ==
    (IsDrawdown /\ Done /\ args.age >= 0) =>
        /\ Cardinality(BandsContaining(args.age)) = 1
        /\ ret = ListedRate(args.age)
        /\ ret # 0

\* ---------------------------------------------------------------------- C9
YearsResult ==
    IsYears =>
        /\ years <= 100
        /\ Done =>
              IF args.target_balance <= args.current_balance
              THEN ret = [ years |-> 0, age |-> args.start_age,
                           balance |-> args.current_balance ]
              ELSE IF args.annual_contribution <= 0
                      /\ args.annual_return_rate <= 0
              THEN ret = [ years |-> Inf, age |-> Inf,
                           balance |-> args.current_balance ]
              ELSE IF years = 100 /\ balance < args.target_balance
              THEN ret = [ years |-> Inf, age |-> Inf, balance |-> balance ]
              ELSE /\ ret.years \in 1 .. 100
                   /\ ret.years = years
                   /\ ret.balance = balance
                   /\ ret.balance >= args.target_balance

\* C9: yearsToReachTarget terminates after at most 100 iterations; it returns
\* (0, startAge, balance) when target <= balance, the unreachable result with
\* the unchanged balance when target > balance, contribution <= 0 and
\* returnRate <= 0, the unreachable result with the balance reached when 100
\* iterations leave balance < target, and otherwise finite years in 1..100
\* with finalBalance >= target.
C9_YearsToTarget == [](YearsResult) /\ (IsYears ~> Done)

\* The target first reached at the hundredth iteration.
C9_Witness ==
    /\ IsYears /\ Done
    /\ ret.years = 100
    /\ ret.balance >= args.target_balance

\* --------------------------------------------------------------------- C10
\* C10: for startSuper >= 0 and superReturnRate > -1, if the last emitted
\* record has endSuper > 0 then every emitted record has
\* totalIncomeAfterTax >= targetAfterTaxIncome.
C10_TargetMetWhileFunded ==
    ( /\ IsProject
      /\ args.start_super >= 0
      /\ args.super_return_rate > -100
      /\ Len(results) >= 1
      /\ results[Len(results)].EndSuper > 0 )
    => \A i \in Emitted :
          results[i].TotalIncomeAfterTax >= args.target_after_tax_income

\* A finished projection with money left whose withdrawals were driven by a
\* positive target, above the minimum drawdown.
C10_Witness ==
    /\ IsProject /\ Done
    /\ Len(results) >= 3
    /\ args.super_return_rate > -100
    /\ args.target_after_tax_income > 0
    /\ results[Len(results)].EndSuper > 0
    /\ \A i \in Emitted :
          locals[i].annual_super_withdrawal > locals[i].min_drawdown_amt

\* --------------------------------------------------------------------- C11
\* The projection has stopped by the early break, after the year of `age`.
StoppedEarly ==
    /\ IsProject /\ Done
    /\ Len(results) >= 1
    /\ Len(results) < RangeLen

\* C11: whenever the projection stops early after the year of age a
\* (a < endAge), the pension that would be computed for age a + 1 from the
\* clamped balance 0 is 0.
C11_NoPensionAfterStop ==
    StoppedEarly =>
        /\ age < args.end_age
        /\ current_super = 0
        /\ annual_age_pension(current_super, age + 1,
                              args.relationship_status) = 0

\* --------------------------------------------------------------------- C12
\* The levy threshold a year's tax calculation uses for the status.
LevyThresholdUsed(status) ==
    IF status = "single" THEN Dollars(43020) ELSE Dollars(29943)

\* C12: in every emitted record, for either status and any inputs,
\* taxPayment == 0 and totalIncomeAfterTax == totalIncomePreTax; the taxable
\* slice is the pension's per-person share, positive only from age 67, and
\* never above the SAPTO threshold or the Medicare-levy threshold used.
C12_NoTaxOnPension ==
    IsProject =>
        \A i \in Emitted :
            LET l == locals[i]
                st == args.relationship_status
            IN  /\ results[i].TaxPayment = 0
                /\ l.total_tax_payment = 0
                /\ results[i].TotalIncomeAfterTax
                     = results[i].TotalAnnualIncomePreTax
                /\ l.taxable_age_pension_for_tax_calc
                     = RoundDiv(l.annual_age_pension,
                                IF st = "couple" THEN 2 ELSE 1)
                /\ (l.taxable_age_pension_for_tax_calc > 0 => l.age >= 67)
                /\ l.taxable_age_pension_for_tax_calc <= SaptoThreshold(st)
                /\ l.taxable_age_pension_for_tax_calc <= LevyThresholdUsed(st)

\* A couple's year whose per-person slice lies in a taxed bracket, so that
\* the offset is what brings the tax to 0.
C12_Witness ==
    /\ IsProject
    /\ args.relationship_status = "couple"
    /\ \E i \in Emitted :
          /\ locals[i].age >= 67
          /\ locals[i].taxable_age_pension_for_tax_calc > Dollars(18200)
          /\ gross_tax(locals[i].taxable_age_pension_for_tax_calc) > 0
          /\ results[i].TaxPayment = 0

\* --------------------------------------------------------------------- C13
\* The bounds of one emitted record.
WithinBalance(rec) ==
    /\ 0 <= rec.MinDrawdown
    /\ rec.MinDrawdown <= rec.AnnualSuperWithdrawal
    /\ rec.AnnualSuperWithdrawal <= rec.StartSuper
    /\ rec.EndSuper >= 0

\* C13: for startSuper >= 0 and superReturnRate >= -1, every emitted record
\* has 0 <= minDrawdownAmount <= superWithdrawal <= startSuper and
\* endSuper >= 0, and once a record has endSuper == 0 every later record has
\* startSuper == superWithdrawal == endSuper == 0.
C13_BalanceBounds ==
    ( /\ IsProject
      /\ args.start_super >= 0
      /\ args.super_return_rate >= -100 )
    => /\ \A i \in Emitted :
             /\ WithinBalance(results[i])
             /\ 0 <= locals[i].min_drawdown_amt
             /\ locals[i].min_drawdown_amt <= locals[i].annual_super_withdrawal
             /\ locals[i].annual_super_withdrawal <= locals[i].current_super
             /\ locals[i].end_super >= 0
       /\ \A i, j \in Emitted :
             (i < j /\ results[i].EndSuper = 0) =>
                 /\ results[j].StartSuper = 0
                 /\ results[j].AnnualSuperWithdrawal = 0
                 /\ results[j].EndSuper = 0

\* A balance withdrawn in full in the first year, at a return above -1, and
\* followed by two more years that start from 0.
C13_Witness ==
    /\ IsProject /\ Done
    /\ args.super_return_rate > -100
    /\ Len(results) >= 3
    /\ results[1].AnnualSuperWithdrawal > results[1].MinDrawdown
    /\ results[1].EndSuper = 0
    /\ results[1].StartSuper > 0
    /\ results[3].StartSuper = 0

\* --------------------------------------------------------------------- C14
\* calculateSuperGrowth of the call's balance, contribution and rate.
GrowthAfter(m) ==
    calculate_super_growth(args.current_balance, args.annual_contribution,
                           args.annual_return_rate, m)

\* C14: whenever yearsToReachTarget returns finite years n, age == startAge
\* + n, finalBalance == calculateSuperGrowth(b, c, r, n) >= target, and
\* calculateSuperGrowth(b, c, r, m) < target for every 0 <= m < n.
C14_YearsAgreeWithGrowth ==
    (IsYears /\ Done /\ ret.years # Inf) =>
        /\ ret.age = args.start_age + ret.years
        /\ ret.balance = GrowthAfter(ret.years)
        /\ ret.balance >= args.target_balance
        /\ \A m \in 0 .. ret.years - 1 : GrowthAfter(m) < args.target_balance

\* A target reached after several years of contributions and returns.
C14_Witness ==
    /\ IsYears /\ Done
    /\ ret.years # Inf
    /\ ret.years >= 3
    /\ args.annual_contribution > 0
    /\ args.annual_return_rate > 0

====
